---- MODULE Spec2Model ----
(***************************************************************************)
(* Model of the request dispatcher of supp-ts: HttpClient (client.ts), the  *)
(* error classes it raises (errors.ts) and the constructor of Supp          *)
(* (index.ts).                                                              *)
(*                                                                          *)
(* One client is constructed from an API key and an options object; calls   *)
(* to request() then run on it.  Every await of request() is a position of  *)
(* pc; the transport (fetch and the reading of the response body) and the   *)
(* timers of the runtime are the environment.                               *)
(*                                                                          *)
(* Spec follows one call at a time through every answer of the transport.   *)
(* SpecRequests takes the same steps for every way of constructing the      *)
(* client and every descriptor, with fewer answers.  SpecCalls runs two     *)
(* calls side by side, one attempt at a time.                               *)
(***************************************************************************)
EXTENDS Integers, Sequences, FiniteSets, TLC

VARIABLES
    args,           \* the arguments new Supp(apiKey, options) was called with
    supp,           \* "built", or "threw" when the constructor of Supp threw
    apiKey,         \* this.apiKey
    baseUrl,        \* this.baseUrl
    maxRetries,     \* this.maxRetries
    timeout,        \* this.timeout, the delay of the timer of each attempt
    pc,             \* position of the running call of request()
    attempt,        \* loop variable of the attempt loop
    lastError,      \* local lastError
    timer,          \* timeoutId of the current attempt: "armed" or "none"
    orphanTimers,   \* timers still armed whose fetch has already settled
    response,       \* the Response of the current attempt
    fetchResult,    \* how the fetch of the current attempt settled
    outcome,        \* what the call returned or raised
    netCalls,       \* number of fetch() calls issued by the running call
    sleeps,         \* durations passed to sleep() by the running call
    lastErrorAt,    \* attempt that recorded lastError (-1: none)
    allTransient,   \* every attempt so far ended in a 5xx, a timeout or a network error
    seen,           \* kinds of transient failure met by the running call
    inFlight,       \* network requests issued and not yet settled (fetch and body)
    sleepTimers,    \* timers of sleep() still running
    requestOptions, \* the descriptor request() was called with
    url,            \* local url
    init,           \* local init: method, headers and body
    sent,           \* what each fetch() of the running call was given
    calls           \* the locals of each of the calls running side by side

vars == <<args, supp, apiKey, baseUrl, maxRetries, timeout, pc, attempt,
          lastError, timer, orphanTimers, response, fetchResult, outcome,
          netCalls, sleeps, lastErrorAt, allTransient, seen, inFlight,
          sleepTimers, requestOptions, url, init, sent, calls>>

config == <<apiKey, baseUrl, maxRetries, timeout>>

\* What construction leaves behind: no step of a call writes it.
client == <<args, supp, config>>

\* The call whose steps are followed one await at a time.
call == <<pc, attempt, lastError, timer, orphanTimers, response, fetchResult,
          outcome, netCalls, sleeps, lastErrorAt, allTransient, seen, inFlight,
          sleepTimers, requestOptions, url, init, sent>>

(***************************************************************************)
(* Bounds of the model.                                                     *)
(***************************************************************************)
MaxRetriesOpt == 5      \* largest explicit maxRetries option
MaxOrphanTimers == 1    \* cap on timers left armed after their fetch settled
MaxRetriesCalls == 2    \* largest maxRetries of a client whose calls run side by side
MaxRetriesBuilt == 1    \* largest explicit maxRetries where every descriptor is tried

(***************************************************************************)
(* Program constants.                                                       *)
(***************************************************************************)
DEFAULT_BASE_URL == "https://api.supp.support"
DEFAULT_TIMEOUT == 30000
DEFAULT_MAX_RETRIES == 2

(***************************************************************************)
(* JavaScript values: a type tag and the literal.                           *)
(***************************************************************************)
Undefined == [t |-> "undefined", v |-> ""]
Null == [t |-> "null", v |-> ""]
Str(s) == [t |-> "string", v |-> s]
Num(s) == [t |-> "number", v |-> s]
Obj(text) == [t |-> "object", v |-> text]

Nullish(x) == x.t \in {"undefined", "null"}

\* a ?? b
Coalesce(a, b) == IF Nullish(a) THEN b ELSE a

\* The test of a missing value alone: x === undefined
Falsy_OnlyUndefined(x) == x.t = "undefined"

\* !x
Falsy(x) ==
    CASE x.t \in {"undefined", "null"} -> TRUE
      [] x.t = "string" -> x.v = ""
      [] x.t = "number" -> x.v \in {"0", "NaN"}
      [] x.t = "boolean" -> x.v = "false"
      [] OTHER -> FALSE

(***************************************************************************)
(* Response bodies the transport may deliver, as text.                      *)
(***************************************************************************)
B_EMPTY == ""
B_HTML == "<html>Bad Gateway</html>"
B_NULL == "null"
B_NUMBER == "42"
B_EMPTY_OBJECT == "{}"
B_ERROR == "{\"error\":\"bad intent\"}"
B_ERROR_NULL == "{\"error\":null}"
B_DATA == "{\"data\":{\"id\":7}}"
B_DATA_NULL == "{\"data\":null}"
B_DATA_ZERO == "{\"data\":0}"
B_BARE == "{\"id\":7}"

Bodies == {B_EMPTY, B_HTML, B_NULL, B_NUMBER, B_EMPTY_OBJECT, B_ERROR,
           B_ERROR_NULL, B_DATA, B_DATA_NULL, B_DATA_ZERO, B_BARE}

ObjectBodies == {B_EMPTY_OBJECT, B_ERROR, B_ERROR_NULL, B_DATA, B_DATA_NULL,
                 B_DATA_ZERO, B_BARE}

\* JSON.parse: the decoded value, or a SyntaxError.
JsonParse(text) ==
    CASE text \in ObjectBodies -> [ok |-> TRUE, val |-> Obj(text)]
      [] text = B_NULL -> [ok |-> TRUE, val |-> Null]
      [] text = B_NUMBER -> [ok |-> TRUE, val |-> Num("42")]
      [] OTHER -> [ok |-> FALSE, val |-> Undefined]

\* value.name for a value that is neither null nor undefined.
GetProp(value, name) ==
    CASE value.t # "object" -> Undefined
      [] name = "error" /\ value.v = B_ERROR -> Str("bad intent")
      [] name = "error" /\ value.v = B_ERROR_NULL -> Null
      [] name = "data" /\ value.v = B_DATA -> Obj("{\"id\":7}")
      [] name = "data" /\ value.v = B_DATA_NULL -> Null
      [] name = "data" /\ value.v = B_DATA_ZERO -> Num("0")
      [] OTHER -> Undefined

(***************************************************************************)
(* Errors.  A SuppError carries status and code; a native error does not.   *)
(***************************************************************************)
NoError == [cls |-> "null"]

SuppErrorClasses == {"SuppError", "AuthenticationError", "InsufficientBalanceError",
                     "ForbiddenError", "NotFoundError", "RateLimitError",
                     "ValidationError"}

\* new SuppError(message, status, code?)
SuppError(message, status) ==
    [cls |-> "SuppError", name |-> "SuppError", message |-> message,
     status |-> status, code |-> "HTTP_" \o ToString(status)]

SuppErrorWithCode(message, status, code) ==
    [cls |-> "SuppError", name |-> "SuppError", message |-> message,
     status |-> status, code |-> code]

AuthenticationError(message) ==
    [cls |-> "AuthenticationError", name |-> "AuthenticationError",
     message |-> message, status |-> 401, code |-> "AUTHENTICATION_ERROR"]

InsufficientBalanceError(message) ==
    [cls |-> "InsufficientBalanceError", name |-> "InsufficientBalanceError",
     message |-> message, status |-> 402, code |-> "INSUFFICIENT_BALANCE"]

ForbiddenError(message) ==
    [cls |-> "ForbiddenError", name |-> "ForbiddenError",
     message |-> message, status |-> 403, code |-> "FORBIDDEN"]

NotFoundError(message) ==
    [cls |-> "NotFoundError", name |-> "NotFoundError",
     message |-> message, status |-> 404, code |-> "NOT_FOUND"]

RateLimitError(message) ==
    [cls |-> "RateLimitError", name |-> "RateLimitError",
     message |-> message, status |-> 429, code |-> "RATE_LIMITED"]

ValidationError(message) ==
    [cls |-> "ValidationError", name |-> "ValidationError",
     message |-> message, status |-> 400, code |-> "VALIDATION_ERROR"]

\* Errors raised by the runtime, not by this library.
AbortError ==
    [cls |-> "DOMException", name |-> "AbortError",
     message |-> "This operation was aborted"]
FetchFailed ==
    [cls |-> "TypeError", name |-> "TypeError", message |-> "fetch failed"]
JsonSyntaxError ==
    [cls |-> "SyntaxError", name |-> "SyntaxError",
     message |-> "Unexpected token in JSON"]
BodyReadFailed ==
    [cls |-> "TypeError", name |-> "TypeError", message |-> "terminated"]
NullPropertyError ==
    [cls |-> "TypeError", name |-> "TypeError",
     message |-> "Cannot read properties of null"]

\* error instanceof SuppError
IsSuppError(e) == e.cls \in SuppErrorClasses

\* HttpClient.buildError
buildError(status, message) ==
    CASE status = 400 -> ValidationError(message)
      [] status = 401 -> AuthenticationError(message)
      [] status = 402 -> InsufficientBalanceError(message)
      [] status = 403 -> ForbiddenError(message)
      [] status = 404 -> NotFoundError(message)
      [] status = 429 -> RateLimitError(message)
      [] OTHER -> SuppError(message, status)

(***************************************************************************)
(* Responses.                                                               *)
(***************************************************************************)
Statuses == {200, 204, 300, 304, 400, 401, 402, 403, 404, 418, 429, 500, 503}

\* read: whether the body is still awaited ("pending"), has arrived ("done")
\* or was lost to a failure of the connection ("failed").
NoResponse == [status |-> 0, read |-> "pending", body |-> ""]

\* Response.ok
Ok(status) == status >= 200 /\ status <= 299

(***************************************************************************)
(* The request: descriptor, URL, headers and body.                          *)
(***************************************************************************)
Bool(s) == [t |-> "boolean", v |-> s]

\* A query mapping: its entries in the order of Object.entries.
Query(entries) == [t |-> "object", entries |-> entries]

\* String(value)
String(value) ==
    CASE value.t = "undefined" -> "undefined"
      [] value.t = "null" -> "null"
      [] OTHER -> value.v

\* The characters of a string.
Chars(s) == { SubSeq(s, i, i) : i \in 1 .. Len(s) }

\* What the serializer of URLSearchParams leaves as it is.
Unreserved ==
    Chars("abcdefghijklmnopqrstuvwxyzABCDEFGHIJKLMNOPQRSTUVWXYZ0123456789*-._")

PercentCode(c) ==
    CASE c = "/" -> "%2F"
      [] c = "?" -> "%3F"
      [] c = "&" -> "%26"
      [] c = "=" -> "%3D"
      [] c = ":" -> "%3A"
      [] c = "+" -> "%2B"

\* application/x-www-form-urlencoded, as url.toString() writes a key or value.
RECURSIVE FormEncode(_)
FormEncode(s) ==
    IF s = "" THEN ""
    ELSE LET c == SubSeq(s, 1, 1)
             e == IF c \in Unreserved THEN c
                  ELSE IF c = " " THEN "+" ELSE PercentCode(c)
         IN  e \o FormEncode(SubSeq(s, 2, Len(s)))

\* The origin of an absolute URL: what precedes its third slash.
Origin(s) ==
    LET slashes == { i \in 1 .. Len(s) : SubSeq(s, i, i) = "/" }
    IN  IF Cardinality(slashes) < 3 THEN s
        ELSE SubSeq(s, 1, (CHOOSE i \in slashes :
                               Cardinality({ j \in slashes : j <= i }) = 3) - 1)

\* url.searchParams.set(key, value): the value of the key is replaced where
\* the key stands, or the pair is appended.
SearchParamsSet(params, key, value) ==
    IF \E i \in 1 .. Len(params) : params[i][1] = key
    THEN [i \in 1 .. Len(params) |->
              IF params[i][1] = key THEN <<key, value>> ELSE params[i]]
    ELSE Append(params, <<key, value>>)

\* The loop of buildUrl skipping every value that is 0, false or "":
\* if (value) in place of if (value !== undefined).
RECURSIVE SetEntries_Truthy(_, _)
SetEntries_Truthy(params, entries) ==
    IF entries = <<>> THEN params
    ELSE LET key == Head(entries)[1]
             value == Head(entries)[2]
         IN  SetEntries_Truthy(IF ~Falsy(value)
                               THEN SearchParamsSet(params, key, String(value))
                               ELSE params,
                               Tail(entries))

\* The loop of buildUrl over Object.entries(query).
RECURSIVE SetEntries(_, _)
SetEntries(params, entries) ==
    IF entries = <<>> THEN params
    ELSE LET key == Head(entries)[1]
             value == Head(entries)[2]
         IN  SetEntries(IF value.t # "undefined"
                        THEN SearchParamsSet(params, key, String(value))
                        ELSE params,
                        Tail(entries))

\* key=value pairs joined by &.
RECURSIVE Serialize(_)
Serialize(params) ==
    IF params = <<>> THEN ""
    ELSE FormEncode(Head(params)[1]) \o "=" \o FormEncode(Head(params)[2])
         \o (IF Len(params) > 1 THEN "&" ELSE "") \o Serialize(Tail(params))

\* The search parameters of the URL buildUrl returns.
SearchParams(query) ==
    IF ~Falsy(query) THEN SetEntries(<<>>, query.entries) ELSE <<>>

\* HttpClient.buildUrl, for a path that starts at the root.
buildUrl(path, query) ==
    LET params == SearchParams(query)
    IN  Origin(baseUrl) \o path
        \o (IF params = <<>> THEN "" ELSE "?" \o Serialize(params))

\* JSON.stringify of an object, which the model holds as its text.
JsonStringify(value) == Str(value.v)

\* The body condition without the test of the method: if (options.body)
HasBody_AnyMethod(options) == ~Falsy(options.body)

\* options.body && options.method !== "GET"
HasBody(options) == ~Falsy(options.body) /\ options.method # "GET"

\* The headers of every request.
Headers ==
    [h \in {"X-API-Key", "Content-Type"} |->
        IF h = "X-API-Key" THEN apiKey ELSE "application/json"]

\* The RequestInit request() builds before the loop.
BuildInit(options) ==
    [method |-> options.method,
     headers |-> Headers,
     body |-> IF HasBody(options) THEN JsonStringify(options.body) ELSE Undefined]

\* get, post, patch and delete
get(path, query) ==
    [method |-> "GET", path |-> path, body |-> Undefined, query |-> query]

post(path, body) ==
    [method |-> "POST", path |-> path, body |-> body, query |-> Undefined]

patch(path, body) ==
    [method |-> "PATCH", path |-> path, body |-> body, query |-> Undefined]

delete(path) ==
    [method |-> "DELETE", path |-> path, body |-> Undefined, query |-> Undefined]

Methods == {"GET", "POST", "PATCH", "DELETE"}

Paths == {"/api/routing/42", "/api/conversations"}

RequestBodies == {Undefined, Obj("{}"), Obj("{\"message\":\"refund\"}")}

Queries ==
    {Undefined,
     Query(<<>>),
     Query(<< <<"limit", Num("10")>>, <<"status", Undefined>> >>),
     Query(<< <<"status", Undefined>> >>),
     Query(<< <<"limit", Num("0")>>, <<"archived", Bool("false")>>,
              <<"q", Str("")>> >>),
     Query(<< <<"q", Str("refund now")>>, <<"status", Str("open")>> >>)}

\* The descriptors request() is called with: those of get, post, patch and
\* delete, and those that carry a body with GET or DELETE.
RequestOptions ==
    { get("/api/conversations", query) : query \in Queries }
    \cup { post("/api/conversations", body) : body \in RequestBodies }
    \cup { patch("/api/routing/42", body) : body \in RequestBodies }
    \cup { delete(path) : path \in Paths }
    \cup { [method |-> m, path |-> "/api/routing/42", body |-> body,
            query |-> Undefined] :
                m \in {"GET", "DELETE"}, body \in RequestBodies \ {Undefined} }

\* The one descriptor of the calls followed with every answer of the transport.
LoopRequests == { get("/api/conversations", Undefined) }

\* Before the first call: no descriptor, no RequestInit.
NoRequest == delete("/")

NoInit == [method |-> "", headers |-> <<>>, body |-> Undefined]

(***************************************************************************)
(* Construction.  An option that is absent takes its default (??).          *)
(***************************************************************************)
OptionNames == {"maxRetries", "timeout"}

OptionValues(name) ==
    IF name = "maxRetries" THEN -1 .. MaxRetriesOpt ELSE {5000}

\* The options objects a caller may pass: any subset of the options present.
OptionsObjects ==
    UNION { { o \in [D -> UNION { OptionValues(n) : n \in D }] :
                  \A n \in D : o[n] \in OptionValues(n) }
            : D \in SUBSET OptionNames }

\* The default taken for every falsy option: options.name || default
OptionOr_Falsy(options, name, default) ==
    IF name \in DOMAIN options /\ options[name] # 0 THEN options[name] ELSE default

\* options.name ?? default
OptionOr(options, name, default) ==
    IF name \in DOMAIN options THEN options[name] ELSE default

\* options.baseUrl is kept apart from the numeric options: absent, or a string.
BaseUrlOptions == {Undefined, Str("https://api.example.com"),
                   Str("https://api.example.com/")}

\* The API keys a caller may pass to new Supp().
ApiKeys == {Undefined, Str(""), Str("sk_live_abc123"), Str("sk_test_xyz789")}

\* s.replace(/\/$/, "")
StripTrailingSlash(s) ==
    IF Len(s) > 0 /\ SubSeq(s, Len(s), Len(s)) = "/"
    THEN SubSeq(s, 1, Len(s) - 1)
    ELSE s

NoOutcome == [kind |-> "none"]
Returned(value) == [kind |-> "return", value |-> value]
Raised(error) == [kind |-> "throw", error |-> error]

\* The state: the fields of the client, the locals of the running call and
\* what the call has been seen to do.
TypeOK ==
    /\ args.apiKey \in ApiKeys
    /\ args.baseUrl \in BaseUrlOptions
    /\ args.options \in OptionsObjects
    /\ supp \in {"built", "threw"}
    /\ apiKey \in {k.v : k \in ApiKeys}
    /\ baseUrl \in {"", DEFAULT_BASE_URL, "https://api.example.com"}
    /\ maxRetries \in -1 .. MaxRetriesOpt
    /\ timeout \in {0, 5000, DEFAULT_TIMEOUT}
    /\ pc \in {"idle", "loop", "fetch", "okBody", "errBody", "retry", "sleep", "done"}
    /\ attempt \in 0 .. MaxRetriesOpt + 1
    /\ lastError = NoError \/ {"cls", "name", "message"} \subseteq DOMAIN lastError
    /\ timer \in {"none", "armed"}
    /\ orphanTimers \in 0 .. MaxOrphanTimers
    /\ response.status \in Statuses \cup {0}
    /\ response.body \in Bodies
    /\ response.read \in {"pending", "done", "failed"}
    /\ fetchResult \in {"none", "pending", "response", "network", "abort"}
    /\ outcome.kind \in {"none", "return", "throw"}
    /\ netCalls \in 0 .. MaxRetriesOpt + 1
    /\ Len(sleeps) <= MaxRetriesOpt
    /\ lastErrorAt \in -1 .. MaxRetriesOpt
    /\ allTransient \in BOOLEAN
    /\ seen \subseteq {"5xx", "timeout", "network"}
    /\ inFlight \in 0 .. 1
    /\ sleepTimers \in 0 .. 1
    /\ requestOptions.method \in Methods
    /\ init.body.t \in {"undefined", "string"}
    /\ Len(sent) = netCalls

\* HttpClient.constructor
HttpClient(key, baseUrlOption, options) ==
    /\ apiKey = key
    /\ baseUrl = StripTrailingSlash(Coalesce(baseUrlOption, Str(DEFAULT_BASE_URL)).v)
    /\ maxRetries = OptionOr(options, "maxRetries", DEFAULT_MAX_RETRIES)
    /\ timeout = OptionOr(options, "timeout", DEFAULT_TIMEOUT)

\* Supp.constructor: without an API key it throws and no HttpClient is made.
SuppConstructor(key, baseUrlOption, options) ==
    /\ args = [apiKey |-> key, baseUrl |-> baseUrlOption, options |-> options]
    /\ IF Falsy(key)
       THEN /\ supp = "threw"
            /\ apiKey = ""
            /\ baseUrl = ""
            /\ maxRetries = 0
            /\ timeout = 0
       ELSE /\ supp = "built"
            /\ HttpClient(key.v, baseUrlOption, options)

\* No call of request() is running.
NoCall ==
    /\ pc = "idle"
    /\ attempt = 0
    /\ lastError = NoError
    /\ timer = "none"
    /\ orphanTimers = 0
    /\ response = NoResponse
    /\ fetchResult = "none"
    /\ outcome = NoOutcome
    /\ netCalls = 0
    /\ sleeps = <<>>
    /\ lastErrorAt = -1
    /\ allTransient = TRUE
    /\ seen = {}
    /\ inFlight = 0
    /\ sleepTimers = 0
    /\ requestOptions = NoRequest
    /\ url = ""
    /\ init = NoInit
    /\ sent = <<>>

\* The calls running side by side on the one client.
CallIds == {"a", "b"}

\* The locals of a call of request() that has not started.
NewCall ==
    [pc |-> "idle", attempt |-> 0, lastError |-> NoError, timer |-> "none",
     outcome |-> NoOutcome, netCalls |-> 0, sleeps |-> <<>>, answers |-> <<>>]

IdleCalls == [c \in CallIds |-> NewCall]

\* A client built with an API key and any of the numeric options.
Init ==
    \E options \in OptionsObjects :
        /\ SuppConstructor(Str("sk_live_abc123"), Undefined, options)
        /\ NoCall
        /\ calls = IdleCalls

(***************************************************************************)
(* request(): the steps of one call.                                        *)
(***************************************************************************)

\* The message of the error built from a non-ok response:
\* errorBody.error ?? `Request failed with status ${status}`
ErrorMessage(errorBody, status) ==
    Coalesce(GetProp(errorBody, "error"),
             Str("Request failed with status " \o ToString(status))).v

\* Math.min(1000 * 2 ** attempt, 8000)
BackoffDelay(k) == IF 1000 * 2^k < 8000 THEN 1000 * 2^k ELSE 8000

\* The catch clause keeping the first error recorded (lastError ??= ...).
Catch_KeepsFirst(error) ==
    IF IsSuppError(error)
    THEN [rethrow |-> TRUE, error |-> error]
    ELSE IF lastError # NoError
         THEN [rethrow |-> FALSE, error |-> lastError]
         ELSE IF error.cls = "DOMException" /\ error.name = "AbortError"
              THEN [rethrow |-> FALSE,
                    error |-> SuppErrorWithCode("Request timed out", 408, "TIMEOUT")]
              ELSE [rethrow |-> FALSE, error |-> error]

\* The catch clause throwing again whatever is not an abort: only a timeout
\* is recorded.
Catch_RethrowsOthers(error) ==
    IF error.cls = "DOMException" /\ error.name = "AbortError"
    THEN [rethrow |-> FALSE,
          error |-> SuppErrorWithCode("Request timed out", 408, "TIMEOUT")]
    ELSE [rethrow |-> TRUE, error |-> error]

\* The catch clause without the branch that recognises the abort.
Catch_NoAbortBranch(error) ==
    IF IsSuppError(error)
    THEN [rethrow |-> TRUE, error |-> error]
    ELSE [rethrow |-> FALSE, error |-> error]

\* The catch clause of the attempt: a SuppError is raised again, an abort
\* is recorded as the timeout error, anything else is recorded as it is
\* (whatever fetch and response.json() throw is an Error).
Catch(error) ==
    IF IsSuppError(error)
    THEN [rethrow |-> TRUE, error |-> error]
    ELSE IF error.cls = "DOMException" /\ error.name = "AbortError"
         THEN [rethrow |-> FALSE,
               error |-> SuppErrorWithCode("Request timed out", 408, "TIMEOUT")]
         ELSE [rethrow |-> FALSE, error |-> error]

\* lastError ?? new SuppError("Request failed after retries", 500)
FinalError(err) ==
    IF err = NoError THEN SuppError("Request failed after retries", 500) ELSE err

\* An exception thrown inside the try block of the attempt reaches Catch.
Thrown(error) ==
    LET c == Catch(error) IN
    IF c.rethrow
    THEN /\ outcome' = Raised(c.error)
         /\ pc' = "done"
         /\ UNCHANGED <<lastError, lastErrorAt>>
    ELSE /\ lastError' = c.error
         /\ lastErrorAt' = attempt
         /\ pc' = "retry"
         /\ UNCHANGED outcome

\* The loop condition off by one: attempt < this.maxRetries
LoopCondition_Strict(k) == k < maxRetries

\* The condition of the attempt loop: attempt <= this.maxRetries
LoopCondition(k) == k <= maxRetries

\* A caller starts a call: the url, the headers and the body are built, once,
\* and the loop is entered with no error recorded.
Request(options) ==
    /\ supp = "built"
    /\ requestOptions' = options
    /\ url' = buildUrl(options.path, options.query)
    /\ init' = BuildInit(options)
    /\ sent' = <<>>
    /\ pc \in {"idle", "done"}
    /\ pc' = "loop"
    /\ attempt' = 0
    /\ lastError' = NoError
    /\ lastErrorAt' = -1
    /\ response' = NoResponse
    /\ fetchResult' = "none"
    /\ outcome' = NoOutcome
    /\ netCalls' = 0
    /\ sleeps' = <<>>
    /\ allTransient' = TRUE
    /\ seen' = {}
    /\ UNCHANGED <<client, calls, inFlight, sleepTimers, timer, orphanTimers>>

\* The request handed to fetch on retries without the body of the first.
SentRequest_BodyOnce(k) ==
    [url |-> url, method |-> init.method, headers |-> init.headers,
     body |-> IF k = 0 THEN init.body ELSE Undefined, signal |-> k]

\* What fetch(url, init) is given at attempt k: the url and the init built
\* before the loop, with the signal of the controller of this attempt.
SentRequest(k) ==
    [url |-> url, method |-> init.method, headers |-> init.headers,
     body |-> init.body, signal |-> k]

\* attempt <= maxRetries: a new controller, its timer, and the fetch.
StartAttempt ==
    /\ pc = "loop"
    /\ LoopCondition(attempt)
    /\ timer' = "armed"
    /\ fetchResult' = "pending"
    /\ response' = NoResponse
    /\ netCalls' = netCalls + 1
    /\ inFlight' = inFlight + 1
    /\ sent' = Append(sent, SentRequest(attempt))
    /\ pc' = "fetch"
    /\ UNCHANGED <<client, requestOptions, url, init, calls, sleepTimers,
                   attempt, lastError, lastErrorAt, orphanTimers, outcome,
                   sleeps, allTransient, seen>>

\* The loop is over: throw lastError ?? the fallback error.
Exhausted ==
    /\ pc = "loop"
    /\ ~LoopCondition(attempt)
    /\ outcome' = Raised(FinalError(lastError))
    /\ pc' = "done"
    /\ UNCHANGED <<client, requestOptions, url, init, sent, calls, inFlight,
                   sleepTimers, attempt, lastError, lastErrorAt, timer,
                   orphanTimers, response, fetchResult, netCalls, sleeps,
                   allTransient, seen>>

\* fetch resolves with a response; the timer is cleared.
FetchResponse(status) ==
    /\ pc = "fetch"
    /\ fetchResult' = "response"
    /\ timer' = "none"
    /\ response' = [status |-> status, read |-> "pending", body |-> ""]
    /\ pc' = IF Ok(status) THEN "okBody" ELSE "errBody"
    /\ UNCHANGED <<client, requestOptions, url, init, sent, calls, inFlight,
                   sleepTimers, attempt, lastError, lastErrorAt, orphanTimers,
                   outcome, netCalls, sleeps, allTransient, seen>>

\* fetch rejects with a network-level failure; the timer is not cleared and
\* stays armed on a controller whose fetch has settled.
FetchNetworkError ==
    /\ pc = "fetch"
    /\ orphanTimers < MaxOrphanTimers
    /\ fetchResult' = "network"
    /\ inFlight' = inFlight - 1
    /\ timer' = "none"
    /\ orphanTimers' = orphanTimers + 1
    /\ seen' = seen \cup {"network"}
    /\ Thrown(FetchFailed)
    /\ UNCHANGED <<client, requestOptions, url, init, sent, calls, sleepTimers,
                   attempt, response, netCalls, sleeps, allTransient>>

\* The timer of the attempt in flight fires: the controller aborts the fetch,
\* which rejects with an AbortError.
TimeoutFires ==
    /\ pc = "fetch"
    /\ timer = "armed"
    /\ timer' = "none"
    /\ fetchResult' = "abort"
    /\ inFlight' = inFlight - 1
    /\ seen' = seen \cup {"timeout"}
    /\ Thrown(AbortError)
    /\ UNCHANGED <<client, requestOptions, url, init, sent, calls, sleepTimers,
                   attempt, orphanTimers, response, netCalls, sleeps,
                   allTransient>>

\* One controller shared by the attempts of a call: a timer left armed aborts
\* the fetch in flight, whichever attempt issued it.
OrphanTimerFires_SharedController ==
    /\ orphanTimers > 0
    /\ orphanTimers' = orphanTimers - 1
    /\ IF pc = "fetch"
       THEN /\ fetchResult' = "abort"
            /\ inFlight' = inFlight - 1
            /\ seen' = seen \cup {"timeout"}
            /\ Thrown(AbortError)
       ELSE UNCHANGED <<fetchResult, inFlight, seen, pc, lastError,
                        lastErrorAt, outcome>>
    /\ UNCHANGED <<client, requestOptions, url, init, sent, calls, sleepTimers,
                   attempt, timer, response, netCalls, sleeps, allTransient>>

\* A timer left armed fires: it aborts a controller whose fetch has settled.
OrphanTimerFires ==
    /\ orphanTimers > 0
    /\ orphanTimers' = orphanTimers - 1
    /\ UNCHANGED <<client, requestOptions, url, init, sent, calls, inFlight,
                   sleepTimers, pc, attempt, lastError, lastErrorAt, timer,
                   response, fetchResult, outcome, netCalls, sleeps,
                   allTransient, seen>>

\* response.ok: the body arrives and is decoded; json.data ?? json is returned.
OkBody(body) ==
    /\ pc = "okBody"
    /\ response' = [response EXCEPT !.read = "done", !.body = body]
    /\ inFlight' = inFlight - 1
    /\ LET decoded == JsonParse(body) IN
       IF ~decoded.ok
       THEN Thrown(JsonSyntaxError) /\ allTransient' = FALSE
       ELSE IF Nullish(decoded.val)
            THEN Thrown(NullPropertyError) /\ allTransient' = FALSE
            ELSE /\ outcome' = Returned(Coalesce(GetProp(decoded.val, "data"),
                                                 decoded.val))
                 /\ pc' = "done"
                 /\ allTransient' = FALSE
                 /\ UNCHANGED <<lastError, lastErrorAt>>
    /\ UNCHANGED <<client, requestOptions, url, init, sent, calls, sleepTimers,
                   attempt, timer, orphanTimers, fetchResult, netCalls, sleeps,
                   seen>>

\* response.ok, and the connection fails while the body is read:
\* response.json() rejects with the error of the transport.
OkBodyFails ==
    /\ pc = "okBody"
    /\ response' = [response EXCEPT !.read = "failed"]
    /\ inFlight' = inFlight - 1
    /\ Thrown(BodyReadFailed)
    /\ seen' = seen \cup {"network"}
    /\ UNCHANGED <<client, requestOptions, url, init, sent, calls, sleepTimers,
                   attempt, timer, orphanTimers, fetchResult, netCalls, sleeps,
                   allTransient>>

\* Not ok, the error body decoded: the message is taken from it; below 500
\* the mapped error is thrown, otherwise a SuppError is recorded.
HandleErrorBody(errorBody) ==
    LET status == response.status IN
    /\ inFlight' = inFlight - 1
    /\ IF Nullish(errorBody)
       THEN /\ Thrown(NullPropertyError)
            /\ allTransient' = (allTransient /\ status >= 500)
            /\ seen' = IF status >= 500 THEN seen \cup {"5xx"} ELSE seen
       ELSE IF status < 500
            THEN /\ Thrown(buildError(status, ErrorMessage(errorBody, status)))
                 /\ allTransient' = FALSE
                 /\ UNCHANGED seen
            ELSE /\ lastError' = SuppError(ErrorMessage(errorBody, status), status)
                 /\ lastErrorAt' = attempt
                 /\ pc' = "retry"
                 /\ seen' = seen \cup {"5xx"}
                 /\ UNCHANGED <<outcome, allTransient>>
    /\ UNCHANGED <<client, requestOptions, url, init, sent, calls, sleepTimers,
                   attempt, timer, orphanTimers, fetchResult, netCalls,
                   sleeps>>

\* Not ok: the error body arrives and is decoded, {} when it does not decode.
ErrBody(body) ==
    /\ pc = "errBody"
    /\ response' = [response EXCEPT !.read = "done", !.body = body]
    /\ LET decoded == JsonParse(body) IN
       HandleErrorBody(IF decoded.ok THEN decoded.val ELSE Obj(B_EMPTY_OBJECT))

\* Not ok, and the connection fails while the error body is read: {} as well.
ErrBodyFails ==
    /\ pc = "errBody"
    /\ response' = [response EXCEPT !.read = "failed"]
    /\ HandleErrorBody(Obj(B_EMPTY_OBJECT))

\* The backoff with the sleep started and not awaited: the loop goes on to
\* the next attempt while the timer of the sleep still runs.
Backoff_NotAwaited ==
    /\ pc = "retry"
    /\ attempt < maxRetries
    /\ sleeps' = Append(sleeps, BackoffDelay(attempt))
    /\ sleepTimers' = sleepTimers + 1
    /\ attempt' = attempt + 1
    /\ pc' = "loop"
    /\ UNCHANGED <<client, requestOptions, url, init, sent, calls, inFlight,
                   lastError, lastErrorAt, timer, orphanTimers, response,
                   fetchResult, outcome, netCalls, allTransient, seen>>

\* attempt < maxRetries: sleep before the next attempt.
Backoff ==
    /\ pc = "retry"
    /\ attempt < maxRetries
    /\ sleeps' = Append(sleeps, BackoffDelay(attempt))
    /\ sleepTimers' = sleepTimers + 1
    /\ pc' = "sleep"
    /\ UNCHANGED <<client, requestOptions, url, init, sent, calls, inFlight,
                   attempt, lastError, lastErrorAt, timer, orphanTimers,
                   response, fetchResult, outcome, netCalls, allTransient,
                   seen>>

\* The last attempt: no sleep, the loop variable is incremented.
NoBackoff ==
    /\ pc = "retry"
    /\ ~(attempt < maxRetries)
    /\ attempt' = attempt + 1
    /\ pc' = "loop"
    /\ UNCHANGED <<client, requestOptions, url, init, sent, calls, inFlight,
                   sleepTimers, lastError, lastErrorAt, timer, orphanTimers,
                   response, fetchResult, outcome, netCalls, sleeps,
                   allTransient, seen>>

\* The sleep is over: the loop variable is incremented.
SleepDone ==
    /\ pc = "sleep"
    /\ sleepTimers' = sleepTimers - 1
    /\ attempt' = attempt + 1
    /\ pc' = "loop"
    /\ UNCHANGED <<client, requestOptions, url, init, sent, calls, inFlight,
                   lastError, lastErrorAt, timer, orphanTimers, response,
                   fetchResult, outcome, netCalls, sleeps, allTransient, seen>>

Next ==
    \/ \E options \in LoopRequests : Request(options)
    \/ StartAttempt
    \/ Exhausted
    \/ \E status \in Statuses : FetchResponse(status)
    \/ FetchNetworkError
    \/ TimeoutFires
    \/ OrphanTimerFires
    \/ \E body \in Bodies : OkBody(body)
    \/ OkBodyFails
    \/ \E body \in Bodies : ErrBody(body)
    \/ ErrBodyFails
    \/ Backoff
    \/ NoBackoff
    \/ SleepDone

Spec == Init /\ [][Next]_vars

(***************************************************************************)
(* Every way of constructing the client and every descriptor, with a few    *)
(* answers of the transport: the same steps as above.                       *)
(***************************************************************************)
BuiltOptions ==
    { o \in OptionsObjects :
          "maxRetries" \in DOMAIN o => o["maxRetries"] \in 0 .. MaxRetriesBuilt }

InitRequests ==
    \E key \in ApiKeys, baseUrlOption \in BaseUrlOptions, options \in BuiltOptions :
        /\ SuppConstructor(key, baseUrlOption, options)
        /\ NoCall
        /\ calls = IdleCalls

NextRequests ==
    \/ \E options \in RequestOptions : Request(options)
    \/ StartAttempt
    \/ Exhausted
    \/ \E status \in {200, 404, 503} : FetchResponse(status)
    \/ TimeoutFires
    \/ \E body \in {B_DATA, B_BARE} : OkBody(body)
    \/ \E body \in {B_ERROR} : ErrBody(body)
    \/ Backoff
    \/ NoBackoff
    \/ SleepDone

SpecRequests == InitRequests /\ [][NextRequests]_vars

(***************************************************************************)
(* Calls of request() running side by side on one client.  Each call has    *)
(* its own locals (attempt, lastError, the controller and timer of its      *)
(* attempt); the fields of the client are only read.  A call is followed    *)
(* one attempt at a time; answers lists how each of its attempts ended.     *)
(***************************************************************************)
Answers == {"ok", "client", "server", "network", "timeout"}

\* The options of a client whose calls run side by side.
CallsOptions ==
    { o \in OptionsObjects :
          /\ "timeout" \notin DOMAIN o
          /\ "maxRetries" \in DOMAIN o => o["maxRetries"] <= MaxRetriesCalls }

InitCalls ==
    \E options \in CallsOptions :
        /\ SuppConstructor(Str("sk_live_abc123"), Undefined, options)
        /\ NoCall
        /\ calls = IdleCalls

\* What the try block of an attempt throws or records on an answer that is
\* not a success.
ErrorOf(answer) ==
    CASE answer = "client" -> buildError(404, "Request failed with status 404")
      [] answer = "server" -> SuppError("Request failed with status 503", 503)
      [] answer = "network" -> Catch(FetchFailed).error
      [] answer = "timeout" -> Catch(AbortError).error

\* The locals of a call after a transient failure of its attempt: the error
\* is recorded, then the sleep, or the next turn of the loop on the last
\* attempt.
AfterTransient(k, answer) ==
    IF k.attempt < maxRetries
    THEN [k EXCEPT !.lastError = ErrorOf(answer), !.timer = "none",
                   !.answers = Append(@, answer),
                   !.sleeps = Append(@, BackoffDelay(k.attempt)),
                   !.pc = "sleep"]
    ELSE [k EXCEPT !.lastError = ErrorOf(answer), !.timer = "none",
                   !.answers = Append(@, answer),
                   !.attempt = @ + 1,
                   !.pc = "loop"]

\* The locals of a call after the answer to its attempt.
AfterAnswer(k, answer) ==
    CASE answer = "ok" ->
             [k EXCEPT !.outcome = Returned(Obj("{\"id\":7}")), !.timer = "none",
                       !.answers = Append(@, answer), !.pc = "done"]
      [] answer = "client" ->
             [k EXCEPT !.outcome = Raised(Catch(ErrorOf(answer)).error),
                       !.timer = "none",
                       !.answers = Append(@, answer), !.pc = "done"]
      [] OTHER -> AfterTransient(k, answer)

CallRequest(c) ==
    /\ supp = "built"
    /\ calls[c].pc = "idle"
    /\ calls' = [calls EXCEPT ![c].pc = "loop"]
    /\ UNCHANGED <<client, requestOptions, url, init, sent, call>>

CallStartAttempt(c) ==
    /\ calls[c].pc = "loop"
    /\ LoopCondition(calls[c].attempt)
    /\ calls' = [calls EXCEPT ![c].timer = "armed", ![c].netCalls = @ + 1,
                              ![c].pc = "fetch"]
    /\ UNCHANGED <<client, requestOptions, url, init, sent, call>>

CallExhausted(c) ==
    /\ calls[c].pc = "loop"
    /\ ~LoopCondition(calls[c].attempt)
    /\ calls' = [calls EXCEPT ![c].outcome = Raised(FinalError(calls[c].lastError)),
                              ![c].pc = "done"]
    /\ UNCHANGED <<client, requestOptions, url, init, sent, call>>

\* The fetch of the attempt of c settles, by a response or a network failure.
CallAnswered(c, answer) ==
    /\ calls[c].pc = "fetch"
    /\ calls' = [calls EXCEPT ![c] = AfterAnswer(@, answer)]
    /\ UNCHANGED <<client, requestOptions, url, init, sent, call>>

\* One controller for the client: the timer of c aborts every fetch in flight.
CallTimeout_SharedController(c) ==
    /\ calls[c].pc = "fetch"
    /\ calls[c].timer = "armed"
    /\ calls' = [d \in CallIds |->
                   IF d = c THEN AfterTransient(calls[d], "timeout")
                   ELSE IF calls[d].pc = "fetch"
                        THEN [AfterTransient(calls[d], "timeout")
                                  EXCEPT !.answers = calls[d].answers]
                        ELSE calls[d]]
    /\ UNCHANGED <<client, requestOptions, url, init, sent, call>>

\* The timer of the attempt of c fires: its controller aborts its fetch.
CallTimeout(c) ==
    /\ calls[c].pc = "fetch"
    /\ calls[c].timer = "armed"
    /\ calls' = [calls EXCEPT ![c] = AfterTransient(@, "timeout")]
    /\ UNCHANGED <<client, requestOptions, url, init, sent, call>>

CallSleepDone(c) ==
    /\ calls[c].pc = "sleep"
    /\ calls' = [calls EXCEPT ![c].attempt = @ + 1, ![c].pc = "loop"]
    /\ UNCHANGED <<client, requestOptions, url, init, sent, call>>

NextCalls ==
    \E c \in CallIds :
        \/ CallRequest(c)
        \/ CallStartAttempt(c)
        \/ CallExhausted(c)
        \/ \E answer \in Answers \ {"timeout"} : CallAnswered(c, answer)
        \/ CallTimeout(c)
        \/ CallSleepDone(c)

SpecCalls == InitCalls /\ [][NextCalls]_vars

(***************************************************************************)
(* Vocabulary of the properties.                                            *)
(***************************************************************************)
\* The call is at an attempt whose fetch resolved with a response and the
\* reading of the body is over.
Handled == fetchResult = "response" /\ response.read # "pending"

\* ... and its body arrived.
Delivered == Handled /\ response.read = "done"

ClientError(status) == status >= 400 /\ status < 500
ServerError(status) == status >= 500

\* The attempt just handled ended in a transient failure: a 5xx response,
\* a timeout or a network error.
TransientFailure ==
    \/ fetchResult \in {"abort", "network"}
    \/ Handled /\ ServerError(response.status)
    \/ Handled /\ Ok(response.status) /\ response.read = "failed"

\* The call ended because the attempt loop ran out of attempts.
RanOut == pc = "done" /\ ~LoopCondition(attempt)

\* The class and code the status -> kind table gives a status.
KindOf(status) ==
    CASE status = 400 -> <<"ValidationError", "VALIDATION_ERROR">>
      [] status = 401 -> <<"AuthenticationError", "AUTHENTICATION_ERROR">>
      [] status = 402 -> <<"InsufficientBalanceError", "INSUFFICIENT_BALANCE">>
      [] status = 403 -> <<"ForbiddenError", "FORBIDDEN">>
      [] status = 404 -> <<"NotFoundError", "NOT_FOUND">>
      [] status = 429 -> <<"RateLimitError", "RATE_LIMITED">>
      [] OTHER -> <<"SuppError", "HTTP_" \o ToString(status)>>

\* The call raised the error the table maps the status of its response to.
RaisedMapped ==
    /\ pc = "done"
    /\ outcome.kind = "throw"
    /\ IsSuppError(outcome.error)
    /\ outcome.error.cls = KindOf(response.status)[1]
    /\ outcome.error.code = KindOf(response.status)[2]
    /\ outcome.error.status = response.status

(***************************************************************************)
(* C1: whenever an attempt receives a response with status in [400,500),    *)
(* whatever its body, the call raises the mapped typed error at that        *)
(* attempt: it does not go on to the retry logic, to a sleep or to another  *)
(* fetch, and when that response is the first one the call has made         *)
(* exactly one network call.                                                *)
(***************************************************************************)
C1_ClientErrorRaisedAtOnce ==
    (Handled /\ ClientError(response.status)) =>
        /\ RaisedMapped
        /\ netCalls = attempt + 1
        /\ Len(sleeps) = attempt

(***************************************************************************)
(* C2: whenever an attempt receives a response with status in [200,300),    *)
(* whatever the body it delivers, the call ends at that attempt with a      *)
(* success: it does not go on to the retry logic, to a sleep or to another  *)
(* fetch.                                                                   *)
(***************************************************************************)
C2_SuccessEndsTheCall ==
    (Delivered /\ Ok(response.status)) =>
        /\ pc = "done"
        /\ outcome.kind = "return"
        /\ netCalls = attempt + 1

(***************************************************************************)
(* C3: with maxRetries >= 0, a call all of whose attempts end in a          *)
(* transient failure (5xx, timeout, network error, in any mix) makes        *)
(* exactly maxRetries + 1 network calls and then raises; every attempt,     *)
(* whatever the kind of its failure, takes one step of the one loop         *)
(* counter; and no call ever makes more than maxRetries + 1 network calls.  *)
(***************************************************************************)
C3_AttemptBudget ==
    maxRetries >= 0 =>
        /\ netCalls <= maxRetries + 1
        /\ netCalls = (IF pc \in {"idle", "loop"} \/ RanOut
                       THEN attempt ELSE attempt + 1)
        /\ (pc = "done" /\ allTransient) =>
               /\ netCalls = maxRetries + 1
               /\ outcome.kind = "throw"

\* A call with maxRetries 2 ended after a 5xx, a timeout and a network error.
C3_Witness ==
    /\ pc = "done"
    /\ maxRetries = 2
    /\ allTransient
    /\ seen = {"5xx", "timeout", "network"}
    /\ netCalls = 3
    /\ outcome.kind = "throw"

(***************************************************************************)
(* C4: a backoff sleep occurs only after a transient failure of attempt k   *)
(* with k < maxRetries, it lasts min(1000 * 2^k, 8000) ms, exactly one      *)
(* sleep separates two consecutive attempts and none follows the last.      *)
(***************************************************************************)
C4_BackoffOnlyAfterTransientFailure ==
    /\ pc = "sleep" =>
           /\ TransientFailure
           /\ attempt < maxRetries
           /\ Len(sleeps) = attempt + 1
           /\ sleeps[Len(sleeps)] =
                  (IF attempt = 0 THEN 1000 ELSE IF attempt = 1 THEN 2000
                   ELSE IF attempt = 2 THEN 4000 ELSE 8000)
    /\ pc \in {"fetch", "okBody", "errBody", "retry"} => Len(sleeps) = netCalls - 1
    /\ (pc = "done" /\ netCalls > 0) => Len(sleeps) = netCalls - 1

C6_EveryFailureTyped ==
    (pc = "done" /\ outcome.kind = "throw") =>
        /\ IsSuppError(outcome.error)
        /\ {"status", "code", "message"} \subseteq DOMAIN outcome.error

\* What the retry logic does after the attempt in hand, whatever failed.
RetriedLikeAnyTransient ==
    /\ netCalls = (IF pc = "loop" \/ RanOut THEN attempt ELSE attempt + 1)
    /\ pc \in {"retry", "sleep", "loop"} => outcome = NoOutcome
    /\ pc = "sleep" =>
           attempt < maxRetries /\ sleeps[Len(sleeps)] = BackoffDelay(attempt)
    /\ pc = "loop" => Len(sleeps) = (IF LoopCondition(attempt) THEN attempt ELSE maxRetries)
    /\ pc = "done" => RanOut /\ netCalls = maxRetries + 1

(***************************************************************************)
(* C7: an attempt aborted by its timeout is handled like a 5xx for the      *)
(* retries: it takes one attempt of the budget, it is recorded and not      *)
(* raised while attempts remain, the same backoff follows it, and when it   *)
(* is the last attempt the error raised has code TIMEOUT and status 408.    *)
(***************************************************************************)
C7_TimeoutRetriedLikeServerError ==
    /\ fetchResult = "abort" =>
           /\ RetriedLikeAnyTransient
           /\ lastError = SuppErrorWithCode("Request timed out", 408, "TIMEOUT")
           /\ lastErrorAt = (IF pc = "loop" \/ RanOut THEN attempt - 1 ELSE attempt)
           /\ pc = "done" =>
                  /\ outcome.kind = "throw"
                  /\ IsSuppError(outcome.error)
                  /\ outcome.error.code = "TIMEOUT"
                  /\ outcome.error.status = 408
    /\ (Handled /\ ServerError(response.status)) => RetriedLikeAnyTransient

\* A call whose last attempt timed out, after at least one retry.
C7_Witness ==
    /\ pc = "done"
    /\ fetchResult = "abort"
    /\ netCalls >= 2
    /\ Len(sleeps) = netCalls - 1
    /\ outcome.kind = "throw"
    /\ outcome.error.code = "TIMEOUT"

(***************************************************************************)
(* C8: when the call ends on a 4xx response, the class and code of the      *)
(* error raised are those the table gives the status (400 Validation,       *)
(* 401 Authentication, 402 InsufficientBalance, 403 Forbidden, 404          *)
(* NotFound, 429 RateLimit, otherwise SuppError with HTTP_<status>), and    *)
(* the status of the error is the status of that response.                  *)
(***************************************************************************)
C8_ClientErrorKindByStatus ==
    (pc = "done" /\ outcome.kind = "throw" /\ Handled
        /\ ClientError(response.status)) =>
        /\ IsSuppError(outcome.error)
        /\ outcome.error.cls = KindOf(response.status)[1]
        /\ outcome.error.code = KindOf(response.status)[2]
        /\ outcome.error.status = response.status

(***************************************************************************)
(* C9: the error built from a response that is not 2xx has as message the   *)
(* error field of the body when the body is an object with one, and         *)
(* "Request failed with status <status>" otherwise; what the body holds     *)
(* never changes the class of the outcome: below 500 the mapped error is    *)
(* raised at once, from 500 on a SuppError with the status is recorded.     *)
(***************************************************************************)
C9_ErrorMessageFromBody ==
    (Handled /\ ~Ok(response.status)) =>
        LET built == IF pc = "done" THEN outcome.error ELSE lastError
            status == response.status
        IN  /\ IsSuppError(built)
            /\ built.status = status
            /\ built.message =
                   (IF Delivered /\ response.body = B_ERROR THEN "bad intent"
                    ELSE "Request failed with status " \o ToString(status))
            /\ status < 500 => pc = "done" /\ netCalls = attempt + 1
            /\ (status = 400 /\ Delivered /\ response.body = B_ERROR) =>
                   built.code = "VALIDATION_ERROR"

\* The steps the runtime takes by itself.
RuntimeStep ==
    \/ StartAttempt
    \/ Exhausted
    \/ TimeoutFires
    \/ Backoff
    \/ NoBackoff
    \/ SleepDone

(***************************************************************************)
(* C10: every call returns or raises in the end, whatever the transport     *)
(* does: at every await of a running call a step that does not wait for     *)
(* the transport (the timer of the attempt firing, the end of a sleep, the  *)
(* next step of the loop) is enabled.                                       *)
(***************************************************************************)
C10_EveryAwaitBounded ==
    pc \notin {"idle", "done"} => ENABLED RuntimeStep

(***************************************************************************)
(* C11: within one call the attempts are strictly sequential: an attempt    *)
(* is issued only when the one before it has settled (response and body,    *)
(* network failure or timeout) and the sleep after it has elapsed, so at    *)
(* most one network request of the call is in flight at any time.           *)
(***************************************************************************)
C11_AttemptsSequential ==
    /\ inFlight <= 1
    /\ sleepTimers <= 1
    /\ inFlight = 1 => sleepTimers = 0
    /\ pc \in {"fetch", "okBody", "errBody"} =>
           /\ inFlight = 1
           /\ netCalls = attempt + 1
           /\ Len(sleeps) = attempt
    /\ pc \in {"retry", "sleep", "loop", "done"} => inFlight = 0
    /\ pc = "sleep" => sleepTimers = 1

\* The third attempt of a call is in flight, two sleeps behind it.
C11_Witness ==
    /\ pc = "fetch"
    /\ attempt = 2
    /\ inFlight = 1
    /\ sleepTimers = 0
    /\ sleeps = <<1000, 2000>>
    /\ seen = {"5xx", "timeout"}

\* A transient answer: a 5xx, a network failure or a timeout.
IsTransient(answer) == answer \in {"server", "network", "timeout"}

\* What a call is after the answers to its own attempts, whatever else runs
\* on the client: every local as a function of answers and of the
\* configuration.
OwnState(k) ==
    LET n == Len(k.answers)
        ended == n > 0 /\ ~IsTransient(k.answers[n])
        transients == SelectSeq(k.answers, IsTransient)
        slept == IF k.pc \in {"fetch", "sleep"} \/ (k.pc = "loop" /\ LoopCondition(n))
                 THEN n
                 ELSE IF n = 0 THEN 0 ELSE n - 1
    IN  /\ k.netCalls = (IF k.pc = "fetch" THEN n + 1 ELSE n)
        /\ k.attempt = (IF k.pc = "sleep" \/ ended THEN n - 1 ELSE n)
        /\ k.timer = (IF k.pc = "fetch" THEN "armed" ELSE "none")
        /\ k.lastError = (IF transients = <<>> THEN NoError
                          ELSE ErrorOf(transients[Len(transients)]))
        /\ k.sleeps = [i \in 1 .. slept |-> BackoffDelay(i - 1)]
        /\ k.outcome = (IF k.pc # "done" THEN NoOutcome
                        ELSE IF n = 0 THEN Raised(FinalError(NoError))
                        ELSE IF k.answers[n] = "ok" THEN Returned(Obj("{\"id\":7}"))
                        ELSE Raised(ErrorOf(k.answers[n])))
        /\ ended => k.pc = "done"

(***************************************************************************)
(* C12: for two calls running side by side on one client, under any         *)
(* interleaving, the attempt counter, the sleeps, the last error, the       *)
(* timer and the outcome of each call are what the answers to its own       *)
(* attempts make them: nothing that happens to the other call changes       *)
(* them.                                                                    *)
(***************************************************************************)
C12_CallsIndependent ==
    \A c \in CallIds : OwnState(calls[c])

\* With maxRetries 1, call a returned on its second attempt after a timeout
\* and call b ran out of attempts on a 5xx and then a timeout.
C12_Witness ==
    /\ maxRetries = 1
    /\ calls["a"].answers = <<"timeout", "ok">>
    /\ calls["a"].outcome.kind = "return"
    /\ calls["b"].answers = <<"server", "timeout">>
    /\ calls["b"].pc = "done"
    /\ calls["b"].outcome = Raised(SuppErrorWithCode("Request timed out", 408, "TIMEOUT"))

(***************************************************************************)
(* C13: with method GET no attempt sends a body, even when the descriptor   *)
(* carries one; with any other method the body is sent exactly when the     *)
(* descriptor has one, and it is the serialized body of the descriptor      *)
(* (DELETE /api/routing/42 goes to <base>/api/routing/42 with no body).     *)
(***************************************************************************)
C13_BodyOnlyWhenNotGet ==
    \A i \in 1 .. Len(sent) :
        /\ sent[i].method = requestOptions.method
        /\ requestOptions.method = "GET" => sent[i].body = Undefined
        /\ requestOptions.method # "GET" =>
               (sent[i].body # Undefined <=> requestOptions.body # Undefined)
        /\ sent[i].body # Undefined => sent[i].body = Str(requestOptions.body.v)
        /\ (requestOptions = delete("/api/routing/42")
               /\ args.baseUrl = Str("https://api.example.com")) =>
               /\ sent[i].url = "https://api.example.com/api/routing/42"
               /\ sent[i].body = Undefined

\* A GET whose descriptor carries a body, at its second attempt.
C13_Witness ==
    /\ requestOptions.method = "GET"
    /\ requestOptions.body = Obj("{\"message\":\"refund\"}")
    /\ Len(sent) = 2
    /\ sent[1].body = Undefined
    /\ sent[2].body = Undefined

(***************************************************************************)
(* C14: every attempt carries the header X-API-Key with the API key of the  *)
(* client, and carries Content-Type: application/json if and only if it     *)
(* carries a body.                                                          *)
(***************************************************************************)
C14_ContentTypeOnlyWithBody ==
    \A i \in 1 .. Len(sent) :
        LET headers == sent[i].headers IN
        /\ "X-API-Key" \in DOMAIN headers
        /\ headers["X-API-Key"] = apiKey
        /\ "Content-Type" \in DOMAIN headers <=> sent[i].body # Undefined
        /\ "Content-Type" \in DOMAIN headers =>
               headers["Content-Type"] = "application/json"

\* The decoded body is an object with a data field.
HasDataField(json) ==
    json.t = "object" /\ json.v \in {B_DATA, B_DATA_NULL, B_DATA_ZERO}

(***************************************************************************)
(* C15: a call that returns on a 2xx response returns the value of the      *)
(* data field of the decoded body whenever the body has that field, null    *)
(* and 0 included, and the whole decoded body only when it has none.        *)
(***************************************************************************)
C15_DataFieldUnwrapped ==
    (pc = "done" /\ outcome.kind = "return") =>
        LET json == JsonParse(response.body).val IN
        outcome.value = (IF HasDataField(json) THEN GetProp(json, "data") ELSE json)

(***************************************************************************)
(* Reading a URL back: its search string, split into decoded pairs.         *)
(***************************************************************************)
\* The place of the first ch in s, 0 when there is none.
IndexOf(s, ch) ==
    LET at == { i \in 1 .. Len(s) : SubSeq(s, i, i) = ch }
    IN  IF at = {} THEN 0 ELSE CHOOSE i \in at : \A j \in at : i <= j

SearchOf(href) ==
    LET q == IndexOf(href, "?")
    IN  IF q = 0 THEN "" ELSE SubSeq(href, q + 1, Len(href))

PercentDecode(code) ==
    CASE code = "%2F" -> "/"
      [] code = "%3F" -> "?"
      [] code = "%26" -> "&"
      [] code = "%3D" -> "="
      [] code = "%3A" -> ":"
      [] code = "%2B" -> "+"

RECURSIVE FormDecode(_)
FormDecode(s) ==
    IF s = "" THEN ""
    ELSE LET c == SubSeq(s, 1, 1)
         IN  IF c = "%"
             THEN PercentDecode(SubSeq(s, 1, 3)) \o FormDecode(SubSeq(s, 4, Len(s)))
             ELSE (IF c = "+" THEN " " ELSE c) \o FormDecode(SubSeq(s, 2, Len(s)))

RECURSIVE ParsePairs(_)
ParsePairs(search) ==
    IF search = "" THEN <<>>
    ELSE LET amp == IndexOf(search, "&")
             pair == IF amp = 0 THEN search ELSE SubSeq(search, 1, amp - 1)
             rest == IF amp = 0 THEN "" ELSE SubSeq(search, amp + 1, Len(search))
             eq == IndexOf(pair, "=")
         IN  << <<FormDecode(SubSeq(pair, 1, eq - 1)),
                  FormDecode(SubSeq(pair, eq + 1, Len(pair)))>> >>
             \o ParsePairs(rest)

\* An entry of a query mapping whose value is not undefined.
IsDefinedEntry(entry) == entry[2] # Undefined

ConfiguredAsAsked ==
    LET options == args.options IN
    /\ apiKey = args.apiKey.v
    /\ baseUrl = (IF args.baseUrl = Undefined THEN "https://api.supp.support"
                  ELSE IF args.baseUrl = Str("https://api.example.com/")
                       THEN "https://api.example.com"
                       ELSE args.baseUrl.v)
    /\ maxRetries = (IF "maxRetries" \in DOMAIN options THEN options["maxRetries"]
                     ELSE 2)
    /\ timeout = (IF "timeout" \in DOMAIN options THEN options["timeout"]
                  ELSE 30000)

(***************************************************************************)
(* C17: the configuration is fixed at construction: baseUrl, maxRetries     *)
(* and timeout take their default (https://api.supp.support, 2, 30000)      *)
(* exactly when the option is absent and the value given otherwise, so      *)
(* with an explicit maxRetries of 0 a call makes exactly one attempt and    *)
(* never sleeps; and no step of any call of request(), successful or        *)
(* failing, changes apiKey, baseUrl, maxRetries or timeout.                 *)
(***************************************************************************)
C17_ConfigurationFixed ==
    /\ [](supp = "built" =>
             /\ ConfiguredAsAsked
             /\ ("maxRetries" \in DOMAIN args.options
                    /\ args.options["maxRetries"] = 0) =>
                    /\ netCalls <= 1
                    /\ sleeps = <<>>
                    /\ pc = "done" => netCalls = 1)
    /\ [][config' = config]_vars

\* A client built with maxRetries 0 and nothing else: a call raised on a
\* 503 after its one attempt, with no sleep.
C17_Witness ==
    /\ args.options = [n \in {"maxRetries"} |-> 0]
    /\ args.baseUrl = Undefined
    /\ baseUrl = DEFAULT_BASE_URL
    /\ timeout = DEFAULT_TIMEOUT
    /\ maxRetries = 0
    /\ pc = "done"
    /\ response.status = 503
    /\ outcome.kind = "throw"
    /\ netCalls = 1
    /\ sleeps = <<>>

(***************************************************************************)
(* C18: new Supp() with an empty or missing API key throws before any       *)
(* HttpClient is made, so no call is ever started and no network call is    *)
(* ever issued by a client without an API key.                              *)
(***************************************************************************)
C18_NoClientWithoutApiKey ==
    /\ args.apiKey \in {Undefined, Str("")} =>
           /\ supp = "threw"
           /\ pc = "idle"
           /\ netCalls = 0
           /\ sent = <<>>
    /\ \A i \in 1 .. Len(sent) : sent[i].headers["X-API-Key"] # ""
    /\ supp = "built" => apiKey # "" /\ apiKey = args.apiKey.v

\* new Supp("") threw: there is no client to call.
C18_Witness ==
    /\ args.apiKey = Str("")
    /\ supp = "threw"
    /\ netCalls = 0
    /\ ~ENABLED (\E options \in RequestOptions : Request(options))

(***************************************************************************)
(* C19: every attempt arms one timer, and the timer is cancelled as soon    *)
(* as the attempt completes, by a response or by a network failure: at      *)
(* most one timer of the call is armed at any time, none is armed between   *)
(* attempts, and none is armed when the call has returned or raised.        *)
(***************************************************************************)
C19_TimerCancelledOnCompletion ==
    LET armed == orphanTimers + (IF timer = "armed" THEN 1 ELSE 0) IN
    /\ armed <= 1
    /\ pc = "fetch" => armed = 1
    /\ pc \in {"retry", "sleep", "loop", "done"} => armed = 0

(***************************************************************************)
(* C20: with maxRetries >= 0 the fallback error "Request failed after       *)
(* retries" (status 500) is never raised: when the attempt loop runs out    *)
(* an error has been recorded, and every call that raises has issued at     *)
(* least one network call.                                                  *)
(***************************************************************************)
C20_FallbackNeverRaised ==
    maxRetries >= 0 =>
        /\ RanOut => lastError # NoError /\ outcome = Raised(lastError)
        /\ (pc = "done" /\ outcome.kind = "throw") =>
               /\ outcome.error # SuppError("Request failed after retries", 500)
               /\ netCalls >= 1
        /\ (pc = "loop" /\ attempt > 0) => lastError # NoError

\* With maxRetries 0 the one attempt failed at the network and the loop ran
\* out: the error raised is the one recorded.
C20_Witness ==
    /\ maxRetries = 0
    /\ RanOut
    /\ netCalls = 1
    /\ fetchResult = "network"
    /\ lastError = FetchFailed
    /\ outcome = Raised(FetchFailed)

\* The attempt in hand failed at the network: fetch rejected, or the
\* connection broke while the body of a 2xx response was read.
NetworkFailure ==
    \/ fetchResult = "network"
    \/ Handled /\ Ok(response.status) /\ response.read = "failed"

(***************************************************************************)
(* C21: a network-level failure of an attempt, neither a timeout nor a      *)
(* response, is transient: the error of the transport is recorded as the    *)
(* last error, the backoff sleep follows while attempts remain, the next    *)
(* attempt is made, and the error is raised only when the attempts have     *)
(* run out.                                                                 *)
(***************************************************************************)
C21_NetworkFailureRetried ==
    NetworkFailure =>
        /\ RetriedLikeAnyTransient
        /\ lastError = (IF fetchResult = "network" THEN FetchFailed
                        ELSE BodyReadFailed)
        /\ lastErrorAt = (IF pc = "loop" \/ RanOut THEN attempt - 1 ELSE attempt)
        /\ pc = "done" =>
               /\ outcome = Raised(lastError)
               /\ Len(sleeps) = maxRetries

\* The second attempt of a call failed at the network as the first had, and
\* the call sleeps before its third.
C21_Witness ==
    /\ pc = "sleep"
    /\ attempt = 1
    /\ fetchResult = "network"
    /\ seen = {"network"}
    /\ lastError = FetchFailed
    /\ sleeps = <<1000, 2000>>
    /\ outcome = NoOutcome

\* A status that is neither 2xx nor an error status: what fetch hands over
\* of the 3xx range (300, 304, a redirect without a Location).
BelowClientError(status) == ~Ok(status) /\ status < 400

(***************************************************************************)
(* C22: a response that is not 2xx and whose status is below 400 is         *)
(* handled like a 4xx: the call raises at that attempt a plain SuppError    *)
(* with that status and the code HTTP_<status>, with no retry and no        *)
(* backoff sleep; and a call goes on after a response that is not 2xx only  *)
(* when the status of the response is 500 or more.                          *)
(***************************************************************************)
C22_BelowClientErrorRaisedAtOnce ==
    /\ (Handled /\ BelowClientError(response.status)) =>
           /\ RaisedMapped
           /\ outcome.error.cls = "SuppError"
           /\ netCalls = attempt + 1
           /\ Len(sleeps) = attempt
    /\ (Handled /\ ~Ok(response.status) /\ pc \in {"retry", "sleep", "loop"}) =>
           ServerError(response.status)

\* A step in which a timer left armed by an earlier attempt fires.
StaleTimerStep == orphanTimers' < orphanTimers

\* A step in which the fetch in flight is aborted.
AbortStep == fetchResult # "abort" /\ fetchResult' = "abort"

(***************************************************************************)
(* C23: the timer of an attempt aborts only the fetch of that attempt.  A   *)
(* timer left armed by an earlier attempt changes nothing of the call when  *)
(* it fires, whether a later attempt is in flight, its body is being read   *)
(* or the call sleeps: the fetch in flight stays pending and the position,  *)
(* the attempt, the last error and the outcome stay as they were.  A fetch  *)
(* is aborted only by the timer its own attempt armed, which is spent by    *)
(* the abort, and no timer left armed is.                                   *)
(***************************************************************************)
C23_StaleTimerHarmless ==
    [][/\ StaleTimerStep =>
              UNCHANGED <<pc, attempt, fetchResult, response, inFlight, timer,
                          lastError, lastErrorAt, outcome, netCalls, sleeps>>
       /\ AbortStep =>
              /\ pc = "fetch"
              /\ timer = "armed"
              /\ timer' = "none"
              /\ attempt' = attempt
              /\ ~StaleTimerStep]_vars

\* The first attempt failed at the network and left its timer armed; that
\* timer has fired since, and the second attempt is in flight, pending, with
\* its own timer armed and the error of the first still the last error.
C23_Witness ==
    /\ pc = "fetch"
    /\ attempt = 1
    /\ fetchResult = "pending"
    /\ inFlight = 1
    /\ timer = "armed"
    /\ orphanTimers = 0
    /\ seen = {"network"}
    /\ lastError = FetchFailed
    /\ lastErrorAt = 0
    /\ outcome = NoOutcome

\* A request as sent, without its abort signal.
WithoutSignal(request) ==
    [f \in DOMAIN request \ {"signal"} |-> request[f]]

(***************************************************************************)
(* C24: within one call every attempt sends the same request.  Each fetch   *)
(* is given the url, the method, the headers and the serialized body that   *)
(* were built from the descriptor before the first attempt, so any two      *)
(* attempts of the call agree on all of them; only the abort signal         *)
(* differs, every attempt having its own.                                   *)
(***************************************************************************)
C24_SameRequestEveryAttempt ==
    /\ \A i \in 1 .. Len(sent) :
           /\ sent[i].url = buildUrl(requestOptions.path, requestOptions.query)
           /\ WithoutSignal(sent[i]) =
                  [url |-> url] @@ BuildInit(requestOptions)
    /\ \A i, j \in 1 .. Len(sent) :
           /\ WithoutSignal(sent[i]) = WithoutSignal(sent[j])
           /\ i # j => sent[i].signal # sent[j].signal

\* A POST with a body at its third attempt, the first two having failed.
C24_Witness ==
    /\ Len(sent) = 3
    /\ pc = "fetch"
    /\ attempt = 2
    /\ requestOptions.method = "POST"
    /\ sent[3].body # Undefined
    /\ sent[3].body = sent[1].body
    /\ sent[3].url = sent[1].url
    /\ sent[3].signal # sent[1].signal

====
